---- MODULE Spec2Model ----
(***************************************************************************)
(* Inventory ledger and FIFO costing engine of the Sahab Pharmacy system:  *)
(* the store (stock batches, stock movements, sale records), the FIFO      *)
(* allocator of lib/calculations.ts and the point-of-sale processSale      *)
(* handler with its compensating revertDeductions.  Every await of the     *)
(* code is a step of its own, so that concurrent callers interleave at the *)
(* suspension points, and every call to the persistence service may fail.  *)
(* The alert generator of lib/notifications, the stocktake approval of     *)
(* StocktakeManager and the cost valuation of calculateInventoryStatsAsync *)
(* work on the same store.                                                 *)
(***************************************************************************)
EXTENDS Integers, Sequences, FiniteSets, TLC

\* ------------------------------------------------------------------ bounds
MaxQty == 2              \* largest quantity of a received batch
MaxDay == 2              \* calendar days 1..MaxDay
MaxCartQty == 3          \* largest quantity of one cart line
MaxFaults == 2           \* persistence calls that may fail during one sale
MaxConcFaults == 3       \* the same, when several callers are selling
MaxBatches == 2          \* rows of stock_batches when stock is being received
MaxCost == 1             \* largest unit cost entered when receiving
MaxMovements == 2        \* length of the ledgers of the pure-ledger check
MaxAllocQty == 5         \* largest batch quantity of the allocator check
MaxRequest == 7          \* largest quantity requested of the allocator
MaxAlertCalls == 3       \* generateAndSaveAlerts invocations of one caller
TickHours == 12          \* hours that pass in one step of the wall clock
MaxClock == 36           \* hours the wall clock runs for
MaxStockQty == 101       \* largest stock level of the alert evaluation check
MaxExpiryDay == 93       \* latest expiry day of the alert evaluation check
MaxCount == 2            \* largest counted quantity entered in a stocktake
MaxApprovals == 1        \* approveAdjustments invocations of one client
MaxUnitCost == 2         \* largest batch cost price of the valuation check
MaxFetched == 3          \* longest batch list handed to the valuation

\* ------------------------------------------------------ program constants
LowStockNum == 3              \* reorderPoint * 0.3, in tenths
LowStockDen == 10
ExpiringHighDays == 30
ExpiringMediumDays == 90
DuplicateWindowHours == 24
HoursPerDay == 24

Products == {"p1", "p2"}
Callers == {1, 2}      \* browser tabs issuing processSale (one sale each)
Days == 1..MaxDay
MovementTypes == {"purchase", "sale", "adjustment", "stocktake", "return"}

VARIABLES
  today,        \* the current calendar day
  batches,      \* stock_batches: sequence of rows, the id is the index
  movements,    \* stock_movements in created_at order (append-only)
  sales,        \* sales: the set of sale records
  proc,         \* per caller: the locals of its processSale invocation
  faultsLeft,   \* persistence calls that may still fail
  consoleErrors,\* per caller: console.error lines written by revertDeductions
  receiving,    \* handleReceiveStock: the purchase movement still to insert
  products,     \* products: per product its active flag and reorderPoint
  clock,        \* hours elapsed on the wall clock
  alerts,       \* alerts: sequence of rows in created_at order
  alertProc,    \* per caller: the locals of its generateAndSaveAlerts invocation
  session,      \* the stocktake session and its items as stored
  clients,      \* per caller: the state of its StocktakeManager component
  stats         \* calculateInventoryStatsAsync: the batch list read and the result

vars == <<today, batches, movements, sales, proc, faultsLeft, consoleErrors, receiving,
          products, clock, alerts, alertProc, session, clients, stats>>

\* the state of the sale and receiving handlers, of the alert generator, of the
\* stocktake and of the valuation
saleState == <<batches, movements, sales, proc, consoleErrors, receiving>>
alertState == <<products, clock, alerts, alertProc>>
stocktakeState == <<session, clients>>
others == <<alertState, stocktakeState, stats>>

\* ------------------------------------------------------------ pure helpers
Max(a, b) == IF a >= b THEN a ELSE b
Min(a, b) == IF a <= b THEN a ELSE b

RECURSIVE SumSeq(_)
SumSeq(s) == IF s = <<>> THEN 0 ELSE Head(s) + SumSeq(Tail(s))

Range(s) == {s[i] : i \in DOMAIN s}

RECURSIVE Perms(_)
Perms(S) ==
  IF S = {} THEN {<<>>}
  ELSE UNION {{<<x>> \o p : p \in Perms(S \ {x})} : x \in S}

\* ------------------------------------------------------------------ store
\* a query on stock_batches filtered by product and remaining_quantity > 0
MatchingBatches(bt, productId) ==
  {i \in DOMAIN bt : bt[i].productId = productId /\ bt[i].remainingQuantity > 0}

\* .order('expiry_date', ascending): every order of the matching rows that is
\* ascending in expiry_date; the store leaves the order of equal dates open
FetchStockBatchesByProduct(bt, productId) ==
  {o \in Perms(MatchingBatches(bt, productId)) :
     \A i, j \in DOMAIN o : i < j => bt[o[i]].expiryDate <= bt[o[j]].expiryDate}

\* the quantities of the product's movements, most recent first
FetchStockMovementsByProduct(mv, productId) ==
  LET RECURSIVE Collect(_)
      Collect(k) ==
        IF k = 0 THEN <<>>
        ELSE IF mv[k].productId = productId
             THEN <<mv[k].quantity>> \o Collect(k - 1)
             ELSE Collect(k - 1)
  IN Collect(Len(mv))

\* mutant: the reducer clamps the running sum at every step
ReduceQuantityClamped(qs) ==
  LET RECURSIVE Fold(_, _)
      Fold(k, sum) == IF k > Len(qs) THEN sum ELSE Fold(k + 1, Max(0, sum + qs[k]))
  IN Fold(1, 0)

\* movements.reduce((sum, m) => sum + m.quantity, 0)
ReduceQuantity(qs) ==
  LET RECURSIVE Fold(_, _)
      Fold(k, sum) == IF k > Len(qs) THEN sum ELSE Fold(k + 1, sum + qs[k])
  IN Fold(1, 0)

\* calculateCurrentStockAsync(productId).quantity
CurrentStockQuantity(mv, productId) ==
  Max(0, ReduceQuantity(FetchStockMovementsByProduct(mv, productId)))

\* fetchProductInventory(productId).quantity: the alert generator's own sum over
\* select('quantity').eq('product_id', productId)
ProductInventoryQuantity(mv, productId) ==
  LET RECURSIVE Collect(_)
      Collect(k) ==
        IF k > Len(mv) THEN <<>>
        ELSE IF mv[k].productId = productId
             THEN <<mv[k].quantity>> \o Collect(k + 1)
             ELSE Collect(k + 1)
  IN Max(0, ReduceQuantity(Collect(1)))

\* mutant: the comparison is one day late
IsExpiredLate(expiryDate, day) == expiryDate < day - 1

\* isExpired / the date comparison of processSale, both at day granularity
IsExpired(expiryDate, day) == expiryDate < day

\* ------------------------------------------------------------ FIFO allocator
\* mutant: the comparator is reversed (b - a)
SortByExpiryDescending(bt, ids) ==
  LET RECURSIVE Insert(_, _)
      Insert(b, sorted) ==
        IF sorted = <<>> THEN <<b>>
        ELSE IF bt[Head(sorted)].expiryDate >= bt[b].expiryDate
             THEN <<Head(sorted)>> \o Insert(b, Tail(sorted))
             ELSE <<b>> \o sorted
      RECURSIVE Sort(_, _)
      Sort(k, sorted) ==
        IF k > Len(ids) THEN sorted ELSE Sort(k + 1, Insert(ids[k], sorted))
  IN Sort(1, <<>>)

\* Array.prototype.sort with the expiry comparator: a stable sort
SortByExpiry(bt, ids) ==
  LET RECURSIVE Insert(_, _)
      Insert(b, sorted) ==
        IF sorted = <<>> THEN <<b>>
        ELSE IF bt[Head(sorted)].expiryDate <= bt[b].expiryDate
             THEN <<Head(sorted)>> \o Insert(b, Tail(sorted))
             ELSE <<b>> \o sorted
      RECURSIVE Sort(_, _)
      Sort(k, sorted) ==
        IF k > Len(ids) THEN sorted ELSE Sort(k + 1, Insert(ids[k], sorted))
  IN Sort(1, <<>>)

\* getFIFOBatchesAsync on the rows the store returned
GetFIFOBatches(bt, fetched) ==
  SortByExpiry(bt, SelectSeq(fetched, LAMBDA b : bt[b].remainingQuantity > 0))

\* the loop of deductStockFIFOAsync over the FIFO batches
DeductionLoop(bt, fifo, quantity) ==
  LET RECURSIVE Walk(_, _)
      Walk(k, remaining) ==
        IF k > Len(fifo) \/ remaining <= 0 THEN <<>>
        ELSE LET deductAmount == Min(remaining, bt[fifo[k]].remainingQuantity)
             IN <<[batchId |-> fifo[k], quantity |-> deductAmount,
                   costPrice |-> bt[fifo[k]].costPrice]>>
                \o Walk(k + 1, remaining - deductAmount)
  IN Walk(1, quantity)

DeductionTotal(ds) == SumSeq([i \in DOMAIN ds |-> ds[i].quantity])

\* mutant: the batches of the partial plan are written before the coverage check
DeductStockFIFOWriteFirst(bt, fifo, quantity) ==
  LET ds == DeductionLoop(bt, fifo, quantity)
      updates == {[batchId |-> ds[i].batchId,
                   newQuantity |-> bt[ds[i].batchId].remainingQuantity - ds[i].quantity]
                    : i \in DOMAIN ds}
  IN IF quantity - DeductionTotal(ds) > 0
     THEN [success |-> FALSE, deductions |-> <<>>, updatedBatches |-> updates]
     ELSE [success |-> TRUE, deductions |-> ds, updatedBatches |-> updates]

\* deductStockFIFOAsync up to its batch writes: the result it will return and
\* the updateStockBatch calls it issues (absolute new quantities)
DeductStockFIFO(bt, fifo, quantity) ==
  LET ds == DeductionLoop(bt, fifo, quantity)
  IN IF quantity - DeductionTotal(ds) > 0
     THEN [success |-> FALSE, deductions |-> <<>>, updatedBatches |-> {}]
     ELSE [success |-> TRUE, deductions |-> ds,
           updatedBatches |->
             {[batchId |-> ds[i].batchId,
               newQuantity |-> bt[ds[i].batchId].remainingQuantity - ds[i].quantity]
                : i \in DOMAIN ds}]

\* updateStockBatch(id, {remainingQuantity}): an unconditional update by id
UpdateStockBatch(bt, id, remainingQuantity) ==
  [bt EXCEPT ![id].remainingQuantity = remainingQuantity]

\* Promise.all(updatedBatches.map(updateStockBatch)) with every call succeeding
RECURSIVE ApplyUpdates(_, _)
ApplyUpdates(bt, updates) ==
  IF updates = {} THEN bt
  ELSE LET w == CHOOSE u \in updates : TRUE
       IN ApplyUpdates(UpdateStockBatch(bt, w.batchId, w.newQuantity), updates \ {w})

\* ------------------------------------------------------- processSale state
Phases == {"idle", "expiry", "stock", "fifo", "persist", "movements", "sale",
           "post", "revert", "done", "allocated"}

\* the toasts of processSale
Toasts == {"none", "Expired Product", "Expiry Check Error", "Insufficient Stock",
           "Stock Error", "Process Error", "Save Error", "Sale Completed"}

NoResult == [success |-> FALSE, deductions |-> <<>>]

IdleProc ==
  [pc |-> "idle", cart |-> <<>>, idx |-> 0,
   allAppliedDeductions |-> <<>>,   \* deductions of the finished cart lines
   stockMovements |-> <<>>,         \* movements to insert once every line is done
   deductionResult |-> NoResult,    \* deductStockFIFOAsync's answer for the current line
   inflight |-> {},                 \* updateStockBatch calls issued, not yet answered
   reverting |-> {},                \* per-batch tasks of revertDeductions
   pendingMovements |-> {},         \* insertStockMovement calls not yet answered
   productStocks |-> [p \in Products |-> 0],  \* the stock levels the POS shows
   toast |-> "none"]

\* carts: one line per product (addToCart merges), quantities >= 1
CartsOf(lines) ==
  {c \in UNION {[1..n -> [productId : Products, quantity : 1..MaxCartQty]] : n \in lines} :
     \A i, j \in DOMAIN c : i # j => c[i].productId # c[j].productId}
Carts == CartsOf({1, 2})

\* revertDeductions, its grouping: one task per batch with the summed quantity
GroupByBatch(ds) ==
  {[batchId |-> b,
    quantityToRevert |->
      SumSeq([i \in DOMAIN ds |-> IF ds[i].batchId = b THEN ds[i].quantity ELSE 0]),
    phase |-> "fetch", read |-> 0] : b \in {ds[i].batchId : i \in DOMAIN ds}}

\* `await revertDeductions(ds); toast(...); return`: the toast is shown when the
\* revert tasks are all settled
EnterRevert(p, ds, toast) ==
  LET tasks == GroupByBatch(ds)
  IN [p EXCEPT !.pc = IF tasks = {} THEN "done" ELSE "revert",
               !.reverting = tasks, !.toast = toast]

\* one revert task settled (t removed): the await of Promise.all ends with the last
SettleRevert(p, t) ==
  LET left == p.reverting \ {t}
  IN [p EXCEPT !.reverting = left, !.pc = IF left = {} THEN "done" ELSE "revert"]

\* the identifier processSale builds for itself, 'sale_<time>_<random>': it goes
\* into the movements only, never into the sale row
SaleId(c) == c

\* the sale number processSale builds, 'SALE-<time>', stored with the sale row
SaleNumber(c) == c

\* the id the store gives an inserted sale row: its own generator, a value space
\* the identifiers built by processSale are not in
StoreSaleId(c) == Cardinality(Callers) + c

\* the movement rows processSale prepares for the deductions of one cart line
SaleMovements(c, productId, ds) ==
  [i \in DOMAIN ds |->
     [productId |-> productId, batchId |-> ds[i].batchId, type |-> "sale",
      quantity |-> 0 - ds[i].quantity, costPrice |-> ds[i].costPrice,
      reference |-> SaleId(c)]]

\* the end of one cart line: next line, or the inserts of the movements
NextLine(p) ==
  IF p.idx < Len(p.cart)
  THEN [p EXCEPT !.idx = p.idx + 1, !.pc = "stock"]
  ELSE IF p.stockMovements = <<>>
       THEN [p EXCEPT !.pc = "done", !.toast = "Stock Error"]
       ELSE [p EXCEPT !.pc = "movements",
                      !.pendingMovements = DOMAIN p.stockMovements]

Fail == faultsLeft > 0 /\ faultsLeft' = faultsLeft - 1
NoFail == UNCHANGED faultsLeft

store == <<batches, movements, sales>>

\* ----------------------------------------------------- processSale actions
StartSale(c, carts) ==
  /\ proc[c].pc = "idle"
  /\ \E cart \in carts :
       proc' = [proc EXCEPT ![c] = [IdleProc EXCEPT !.pc = "expiry", !.cart = cart,
                                                    !.idx = 1]]
  /\ UNCHANGED <<others, today, store, faultsLeft, consoleErrors, receiving>>

\* the expiry check of one cart line: the first batch the store returns
CheckExpiry(c) ==
  LET p == proc[c]
  IN /\ p.pc = "expiry"
     /\ \E fetched \in FetchStockBatchesByProduct(batches, p.cart[p.idx].productId) :
          proc' = [proc EXCEPT ![c] =
            IF Len(fetched) > 0 /\ IsExpired(batches[fetched[1]].expiryDate, today)
            THEN [p EXCEPT !.pc = "done", !.toast = "Expired Product"]
            ELSE IF p.idx < Len(p.cart)
                 THEN [p EXCEPT !.idx = p.idx + 1]
                 ELSE [p EXCEPT !.pc = "stock", !.idx = 1]]
     /\ NoFail
     /\ UNCHANGED <<others, today, store, consoleErrors, receiving>>

CheckExpiryError(c) ==
  /\ proc[c].pc = "expiry"
  /\ Fail
  /\ proc' = [proc EXCEPT ![c].pc = "done", ![c].toast = "Expiry Check Error"]
  /\ UNCHANGED <<others, today, store, consoleErrors, receiving>>

\* calculateCurrentStockAsync of the line and the comparison with its quantity
CheckStock(c) ==
  LET p == proc[c]
      item == p.cart[p.idx]
  IN /\ p.pc = "stock"
     /\ proc' = [proc EXCEPT ![c] =
          IF CurrentStockQuantity(movements, item.productId) < item.quantity
          THEN EnterRevert(p, p.allAppliedDeductions, "Insufficient Stock")
          ELSE [p EXCEPT !.pc = "fifo"]]
     /\ NoFail
     /\ UNCHANGED <<others, today, store, consoleErrors, receiving>>

CheckStockError(c) ==
  LET p == proc[c]
  IN /\ p.pc = "stock"
     /\ Fail
     /\ proc' = [proc EXCEPT ![c] = EnterRevert(p, p.allAppliedDeductions, "Process Error")]
     /\ UNCHANGED <<others, today, store, consoleErrors, receiving>>

\* mutant: the loop of the allocator awaits each batch's update as it plans it
AllocateFIFOEager(c) ==
  LET p == proc[c]
      item == p.cart[p.idx]
  IN /\ p.pc = "fifo"
     /\ \E fetched \in FetchStockBatchesByProduct(batches, item.productId) :
          LET r == DeductStockFIFOWriteFirst(batches, GetFIFOBatches(batches, fetched),
                                             item.quantity)
          IN \E w \in r.updatedBatches :
               LET q == [p EXCEPT !.deductionResult = [success |-> r.success,
                                                       deductions |-> r.deductions],
                                  !.inflight = r.updatedBatches \ {w}]
               IN /\ batches' = UpdateStockBatch(batches, w.batchId, w.newQuantity)
                  /\ proc' = [proc EXCEPT ![c] =
                       IF ~r.success
                       THEN EnterRevert(q, q.allAppliedDeductions, "Stock Error")
                       ELSE [q EXCEPT !.pc = "persist"]]
     /\ NoFail
     /\ UNCHANGED <<others, today, movements, sales, consoleErrors, receiving>>

\* deductStockFIFOAsync: the fetch of the batches and the plan; on success the
\* updateStockBatch calls are issued together (Promise.all)
AllocateFIFO(c) ==
  LET p == proc[c]
      item == p.cart[p.idx]
  IN /\ p.pc = "fifo"
     /\ \E fetched \in FetchStockBatchesByProduct(batches, item.productId) :
          LET r == DeductStockFIFO(batches, GetFIFOBatches(batches, fetched), item.quantity)
              q == [p EXCEPT !.deductionResult = [success |-> r.success,
                                                  deductions |-> r.deductions],
                             !.inflight = r.updatedBatches]
          IN proc' = [proc EXCEPT ![c] =
               IF ~r.success
               THEN EnterRevert(q, q.allAppliedDeductions, "Stock Error")
               ELSE [q EXCEPT !.pc = "persist"]]
     /\ NoFail
     /\ UNCHANGED <<others, today, store, consoleErrors, receiving>>

AllocateFIFOError(c) ==
  LET p == proc[c]
  IN /\ p.pc = "fifo"
     /\ Fail
     /\ proc' = [proc EXCEPT ![c] = EnterRevert(p, p.allAppliedDeductions, "Process Error")]
     /\ UNCHANGED <<others, today, store, consoleErrors, receiving>>

\* what processSale does with the result once every batch write is answered
LineDeducted(c, p) ==
  LET item == p.cart[p.idx]
      ds == p.deductionResult.deductions
  IN IF DeductionTotal(ds) # item.quantity
     THEN EnterRevert(p, p.allAppliedDeductions \o ds, "Stock Error")
     ELSE NextLine([p EXCEPT
            !.stockMovements = p.stockMovements \o SaleMovements(c, item.productId, ds),
            !.allAppliedDeductions = p.allAppliedDeductions \o ds])

\* one updateStockBatch of deductStockFIFOAsync reaches the store
BatchWrite(c) ==
  LET p == proc[c]
  IN /\ \E w \in p.inflight :
          LET left == p.inflight \ {w}
              q == [p EXCEPT !.inflight = left]
          IN /\ batches' = UpdateStockBatch(batches, w.batchId, w.newQuantity)
             /\ proc' = [proc EXCEPT ![c] =
                  IF p.pc = "persist" /\ left = {} THEN LineDeducted(c, q) ELSE q]
     /\ NoFail
     /\ UNCHANGED <<others, today, movements, sales, consoleErrors, receiving>>

\* one updateStockBatch fails: Promise.all rejects, the catch of the line runs,
\* the other calls stay in flight
BatchWriteError(c) ==
  LET p == proc[c]
  IN /\ \E w \in p.inflight :
          LET q == [p EXCEPT !.inflight = p.inflight \ {w}]
          IN proc' = [proc EXCEPT ![c] =
               IF p.pc = "persist"
               THEN EnterRevert(q, q.allAppliedDeductions, "Process Error")
               ELSE q]
     /\ Fail
     /\ UNCHANGED <<others, today, store, consoleErrors, receiving>>

\* revertDeductions: fetchStockBatchById of one batch
RevertFetch(c) ==
  LET p == proc[c]
  IN /\ p.pc = "revert"
     /\ \E t \in p.reverting :
          /\ t.phase = "fetch"
          /\ proc' = [proc EXCEPT ![c].reverting =
               (p.reverting \ {t})
                 \cup {[t EXCEPT !.phase = "update",
                                 !.read = batches[t.batchId].remainingQuantity]}]
     /\ NoFail
     /\ UNCHANGED <<others, today, store, consoleErrors, receiving>>

\* revertDeductions: updateStockBatch(batchId, read + quantityToRevert)
RevertUpdate(c) ==
  LET p == proc[c]
  IN /\ p.pc = "revert"
     /\ \E t \in p.reverting :
          /\ t.phase = "update"
          /\ batches' = UpdateStockBatch(batches, t.batchId, t.read + t.quantityToRevert)
          /\ proc' = [proc EXCEPT ![c] = SettleRevert(p, t)]
     /\ NoFail
     /\ UNCHANGED <<others, today, movements, sales, consoleErrors, receiving>>

\* a fetch or an update of revertDeductions throws: caught, console.error only
RevertError(c) ==
  LET p == proc[c]
  IN /\ p.pc = "revert"
     /\ \E t \in p.reverting : proc' = [proc EXCEPT ![c] = SettleRevert(p, t)]
     /\ Fail
     /\ consoleErrors' = [consoleErrors EXCEPT ![c] = @ + 1]
     /\ UNCHANGED <<others, today, store, receiving>>

\* one insertStockMovement of the Promise.all reaches the store
InsertMovement(c) ==
  LET p == proc[c]
  IN /\ \E i \in p.pendingMovements :
          LET left == p.pendingMovements \ {i}
          IN /\ movements' = Append(movements, p.stockMovements[i])
             /\ proc' = [proc EXCEPT ![c] =
                  [p EXCEPT !.pendingMovements = left,
                            !.pc = IF p.pc = "movements" /\ left = {}
                                   THEN "sale" ELSE p.pc]]
     /\ NoFail
     /\ UNCHANGED <<others, today, batches, sales, consoleErrors, receiving>>

InsertMovementError(c) ==
  LET p == proc[c]
  IN /\ \E i \in p.pendingMovements :
          LET q == [p EXCEPT !.pendingMovements = p.pendingMovements \ {i}]
          IN proc' = [proc EXCEPT ![c] =
               IF p.pc = "movements"
               THEN EnterRevert(q, q.allAppliedDeductions, "Save Error")
               ELSE q]
     /\ Fail
     /\ UNCHANGED <<others, today, store, consoleErrors, receiving>>

InsertSale(c) ==
  LET p == proc[c]
  IN /\ p.pc = "sale"
     /\ sales' = sales \cup {[id |-> StoreSaleId(c), saleNumber |-> SaleNumber(c),
                              items |-> p.allAppliedDeductions]}
     /\ proc' = [proc EXCEPT ![c].pc = "post"]
     /\ NoFail
     /\ UNCHANGED <<others, today, batches, movements, consoleErrors, receiving>>

InsertSaleError(c) ==
  LET p == proc[c]
  IN /\ p.pc = "sale"
     /\ Fail
     /\ proc' = [proc EXCEPT ![c] = EnterRevert(p, p.allAppliedDeductions, "Save Error")]
     /\ UNCHANGED <<others, today, store, consoleErrors, receiving>>

\* alerts, audit entry, cache refresh: everything after insertSale in the try
PostSale(c) ==
  /\ proc[c].pc = "post"
  /\ proc' = [proc EXCEPT ![c].pc = "done", ![c].toast = "Sale Completed"]
  /\ NoFail
  /\ UNCHANGED <<others, today, store, consoleErrors, receiving>>

PostSaleError(c) ==
  LET p == proc[c]
  IN /\ p.pc = "post"
     /\ Fail
     /\ proc' = [proc EXCEPT ![c] = EnterRevert(p, p.allAppliedDeductions, "Save Error")]
     /\ UNCHANGED <<others, today, store, consoleErrors, receiving>>

SaleStep(c, carts) ==
  \/ StartSale(c, carts)
  \/ CheckExpiry(c) \/ CheckExpiryError(c)
  \/ CheckStock(c) \/ CheckStockError(c)
  \/ AllocateFIFO(c) \/ AllocateFIFOError(c)
  \/ BatchWrite(c) \/ BatchWriteError(c)
  \/ RevertFetch(c) \/ RevertUpdate(c) \/ RevertError(c)
  \/ InsertMovement(c) \/ InsertMovementError(c)
  \/ InsertSale(c) \/ InsertSaleError(c)
  \/ PostSale(c) \/ PostSaleError(c)

\* --------------------------------------------------------------- receiving
NoReceive == [productId |-> "none", batchId |-> 0, quantity |-> 0, costPrice |-> 0]

PurchaseMovement(productId, batchId, quantity, costPrice) ==
  [productId |-> productId, batchId |-> batchId, type |-> "purchase",
   quantity |-> quantity, costPrice |-> costPrice, reference |-> 0]

\* ReceivingForm.handleSubmit: the fields must be filled in (any number will do)
\* and the expiry date must not be in the past
ReceivingFormAccepts(expiryDate, quantity) == ~(expiryDate < today)

\* handleSubmit, then handleReceiveStock up to insertStockBatch
ReceiveStock ==
  /\ receiving = NoReceive
  /\ Len(batches) < MaxBatches
  /\ \E productId \in Products, expiryDate \in Days, quantity \in (0 - 1)..MaxQty,
        costPrice \in 1..MaxCost :
       /\ ReceivingFormAccepts(expiryDate, quantity)
       /\ batches' = Append(batches,
            [productId |-> productId, expiryDate |-> expiryDate,
             remainingQuantity |-> quantity, costPrice |-> costPrice])
       /\ receiving' = [productId |-> productId, batchId |-> Len(batches) + 1,
                        quantity |-> quantity, costPrice |-> costPrice]
  /\ UNCHANGED <<others, today, movements, sales, proc, faultsLeft, consoleErrors>>

\* handleReceiveStock: insertStockMovement of the purchase
ReceiveMovement ==
  /\ receiving # NoReceive
  /\ movements' = Append(movements,
       PurchaseMovement(receiving.productId, receiving.batchId, receiving.quantity,
                        receiving.costPrice))
  /\ receiving' = NoReceive
  /\ UNCHANGED <<others, today, batches, sales, proc, faultsLeft, consoleErrors>>

ReceiveMovementError ==
  /\ receiving # NoReceive
  /\ Fail
  /\ receiving' = NoReceive
  /\ UNCHANGED <<others, today, batches, movements, sales, proc, consoleErrors>>

\* ------------------------------------------------------------------ alerts
AlertTypes == {"low_stock", "out_of_stock", "expiring_soon", "expired"}
AlertSeverities == {"critical", "high", "medium"}

\* getDaysUntilExpiry: both dates at midnight, whole days from day to expiryDate
GetDaysUntilExpiry(expiryDate, day) == expiryDate - day

\* fetchProductInventory's batches: every batch of the product (empty ones too),
\* ascending in expiry_date, the order of equal dates left open by the store
FetchInventoryBatches(bt, productId) ==
  {o \in Perms({i \in DOMAIN bt : bt[i].productId = productId}) :
     \A i, j \in DOMAIN o : i < j => bt[o[i]].expiryDate <= bt[o[j]].expiryDate}

AlertCheck(productId, type, severity, batchId) ==
  [productId |-> productId, type |-> type, severity |-> severity, batchId |-> batchId]

\* mutant: a quantity equal to the reorderPoint is not low yet
StockLevelAlertsStrict(productId, quantity, reorderPoint) ==
  IF quantity = 0
  THEN <<AlertCheck(productId, "out_of_stock", "critical", 0)>>
  ELSE IF quantity < reorderPoint
       THEN <<AlertCheck(productId, "low_stock",
                IF quantity * LowStockDen <= reorderPoint * LowStockNum
                THEN "high" ELSE "medium", 0)>>
       ELSE <<>>

\* generateProductAlerts, the stock level: quantity <= reorderPoint * 0.3 is
\* compared in tenths (quantities and reorder points are whole numbers)
StockLevelAlerts(productId, quantity, reorderPoint) ==
  IF quantity = 0
  THEN <<AlertCheck(productId, "out_of_stock", "critical", 0)>>
  ELSE IF quantity <= reorderPoint
       THEN <<AlertCheck(productId, "low_stock",
                IF quantity * LowStockDen <= reorderPoint * LowStockNum
                THEN "high" ELSE "medium", 0)>>
       ELSE <<>>

\* mutant: the 90-day rule is tried before the 30-day rule
BatchAlertsWideFirst(bt, b, day) ==
  LET daysUntilExpiry == GetDaysUntilExpiry(bt[b].expiryDate, day)
  IN IF IsExpired(bt[b].expiryDate, day)
     THEN <<AlertCheck(bt[b].productId, "expired", "critical", b)>>
     ELSE IF daysUntilExpiry <= ExpiringMediumDays
          THEN <<AlertCheck(bt[b].productId, "expiring_soon", "medium", b)>>
          ELSE IF daysUntilExpiry <= ExpiringHighDays
               THEN <<AlertCheck(bt[b].productId, "expiring_soon", "high", b)>>
               ELSE <<>>

\* generateProductAlerts, one batch of stock.batches
BatchAlerts(bt, b, day) ==
  LET daysUntilExpiry == GetDaysUntilExpiry(bt[b].expiryDate, day)
  IN IF IsExpired(bt[b].expiryDate, day)
     THEN <<AlertCheck(bt[b].productId, "expired", "critical", b)>>
     ELSE IF daysUntilExpiry <= ExpiringHighDays
          THEN <<AlertCheck(bt[b].productId, "expiring_soon", "high", b)>>
          ELSE IF daysUntilExpiry <= ExpiringMediumDays
               THEN <<AlertCheck(bt[b].productId, "expiring_soon", "medium", b)>>
               ELSE <<>>

\* generateProductAlerts: nothing for an inactive product, else the stock level
\* candidate followed by the candidates of the batches in the order fetched
GenerateProductAlerts(pr, bt, mv, productId, day, fetched) ==
  LET RECURSIVE OfBatches(_)
      OfBatches(k) ==
        IF k > Len(fetched) THEN <<>>
        ELSE BatchAlerts(bt, fetched[k], day) \o OfBatches(k + 1)
  IN IF ~pr[productId].active THEN <<>>
     ELSE StockLevelAlerts(productId, ProductInventoryQuantity(mv, productId),
                           pr[productId].reorderPoint) \o OfBatches(1)

\* mutant: the duplicate query looks back a quarter of the window only
IsDuplicateAlertShortWindow(rows, check, now) ==
  \E k \in DOMAIN rows :
    /\ rows[k].productId = check.productId
    /\ rows[k].type = check.type
    /\ rows[k].createdAt >= now - (DuplicateWindowHours \div 4)
    /\ check.batchId # 0 => rows[k].batchId = check.batchId

\* isDuplicateAlert: a row of the product and type created in the last 24 hours,
\* of the same batch when the candidate has one
IsDuplicateAlert(rows, check, now) ==
  \E k \in DOMAIN rows :
    /\ rows[k].productId = check.productId
    /\ rows[k].type = check.type
    /\ rows[k].createdAt >= now - DuplicateWindowHours
    /\ check.batchId # 0 => rows[k].batchId = check.batchId

AlertPhases == {"idle", "check", "insert", "done", "failed"}
IdleAlertProc == [pc |-> "idle", checks |-> <<>>, idx |-> 0, calls |-> 0]

\* the loop of generateAndSaveAlerts moving on to its next candidate
NextCheck(a) ==
  IF a.idx < Len(a.checks)
  THEN [a EXCEPT !.idx = a.idx + 1, !.pc = "check"]
  ELSE [a EXCEPT !.pc = "done"]

\* generateAndSaveAlerts called: generateProductAlerts reads the product, its
\* batches and its movements
GenerateAlerts(c, productId) ==
  /\ alertProc[c].pc \in {"idle", "done", "failed"}
  /\ alertProc[c].calls < MaxAlertCalls
  /\ \E fetched \in FetchInventoryBatches(batches, productId) :
       LET checks == GenerateProductAlerts(products, batches, movements, productId,
                                           today, fetched)
       IN alertProc' = [alertProc EXCEPT ![c] =
            NextCheck([pc |-> "check", checks |-> checks, idx |-> 0,
                       calls |-> alertProc[c].calls + 1])]
  /\ NoFail
  /\ UNCHANGED <<today, saleState, products, clock, alerts, stocktakeState, stats>>

GenerateAlertsError(c) ==
  /\ alertProc[c].pc \in {"idle", "done", "failed"}
  /\ alertProc[c].calls < MaxAlertCalls
  /\ Fail
  /\ alertProc' = [alertProc EXCEPT ![c] =
       [pc |-> "failed", checks |-> <<>>, idx |-> 0,
        calls |-> alertProc[c].calls + 1]]
  /\ UNCHANGED <<today, saleState, products, clock, alerts, stocktakeState, stats>>

\* await isDuplicateAlert(check)
CheckDuplicate(c) ==
  LET a == alertProc[c]
  IN /\ a.pc = "check"
     /\ alertProc' = [alertProc EXCEPT ![c] =
          IF IsDuplicateAlert(alerts, a.checks[a.idx], clock)
          THEN NextCheck(a)
          ELSE [a EXCEPT !.pc = "insert"]]
     /\ NoFail
     /\ UNCHANGED <<today, saleState, products, clock, alerts, stocktakeState, stats>>

CheckDuplicateError(c) ==
  /\ alertProc[c].pc = "check"
  /\ Fail
  /\ alertProc' = [alertProc EXCEPT ![c].pc = "failed"]
  /\ UNCHANGED <<today, saleState, products, clock, alerts, stocktakeState, stats>>

\* await insertAlert(...): created_at is the time of the insert
InsertAlert(c) ==
  LET a == alertProc[c]
      check == a.checks[a.idx]
  IN /\ a.pc = "insert"
     /\ alerts' = Append(alerts,
          [productId |-> check.productId, type |-> check.type,
           severity |-> check.severity, batchId |-> check.batchId,
           createdAt |-> clock])
     /\ alertProc' = [alertProc EXCEPT ![c] = NextCheck(a)]
     /\ NoFail
     /\ UNCHANGED <<today, saleState, products, clock, stocktakeState, stats>>

InsertAlertError(c) ==
  /\ alertProc[c].pc = "insert"
  /\ Fail
  /\ alertProc' = [alertProc EXCEPT ![c].pc = "failed"]
  /\ UNCHANGED <<today, saleState, products, clock, alerts, stocktakeState, stats>>

\* time passing: the wall clock, and the calendar day at each midnight
Tick ==
  /\ clock + TickHours <= MaxClock
  /\ clock' = clock + TickHours
  /\ today' = today + ((clock' \div HoursPerDay) - (clock \div HoursPerDay))
  /\ UNCHANGED <<saleState, faultsLeft, products, alerts, alertProc, stocktakeState,
                 stats>>

AlertStep(c) ==
  \/ \E productId \in Products : GenerateAlerts(c, productId)
  \/ GenerateAlertsError(c)
  \/ CheckDuplicate(c) \/ CheckDuplicateError(c)
  \/ InsertAlert(c) \/ InsertAlertError(c)

\* --------------------------------------------------------------- stocktake
SessionStatuses == {"open", "counting", "review", "approved", "cancelled"}
TaskStates == {"none", "movement", "item", "done", "failed"}

\* one item's task of the approval's Promise.all: where it stands, the item it
\* captured and the id of the movement it inserted (both dropped once settled)
NoItem ==
  [systemQuantity |-> 0, countedQuantity |-> 0, variance |-> 0, adjusted |-> FALSE,
   adjustmentMovementId |-> 0]
Task(st, item, movementId) == [st |-> st, item |-> item, movementId |-> movementId]
Settled(st) == Task(st, NoItem, 0)

\* the item syncItems generates for a product: counted as the system has it
GeneratedItem(mv, productId) ==
  [systemQuantity |-> CurrentStockQuantity(mv, productId),
   countedQuantity |-> CurrentStockQuantity(mv, productId),
   variance |-> 0, adjusted |-> FALSE, adjustmentMovementId |-> 0]

\* createStocktakeSession, and one saved item per product
CountingSession(mv) ==
  [status |-> "counting", items |-> [p \in Products |-> GeneratedItem(mv, p)]]

\* the component showing the session: its cached session row, its items state
IdleClient(s) ==
  [cachedStatus |-> s.status, items |-> s.items, approving |-> FALSE,
   tasks |-> [p \in Products |-> Settled("none")], toast |-> "none",
   approvals |-> 0, errorToasts |-> 0]

\* mutant: the payload keeps the variance the item came with
ItemPayloadAsPassed(item) ==
  item

\* the payload of an upsert: variance recomputed from the two quantities
ItemPayload(item) ==
  [item EXCEPT !.variance = item.countedQuantity - item.systemQuantity]

\* updateCountedQuantity: the input is shown while the cached status is counting
UpdateCountedQuantity(c, i) ==
  /\ clients[c].cachedStatus = "counting"
  /\ \E quantity \in 0..MaxCount :
       /\ quantity # clients[c].items[i].countedQuantity
       /\ clients' = [clients EXCEPT ![c].items[i] =
            [clients[c].items[i] EXCEPT
               !.countedQuantity = quantity,
               !.variance = quantity - clients[c].items[i].systemQuantity]]
  /\ UNCHANGED <<today, saleState, faultsLeft, alertState, session, stats>>

\* saveItem (the input's onBlur): upsertStocktakeItem of the item as the
\* component holds it
SaveItem(c, i) ==
  /\ clients[c].cachedStatus = "counting"
  /\ session' = [session EXCEPT !.items[i] = ItemPayload(clients[c].items[i])]
  /\ NoFail
  /\ UNCHANGED <<today, saleState, alertState, clients, stats>>

SaveItemError(c, i) ==
  /\ clients[c].cachedStatus = "counting"
  /\ Fail
  /\ clients' = [clients EXCEPT ![c].toast = "Error"]
  /\ UNCHANGED <<today, saleState, alertState, session, stats>>

\* the items an approval adjusts
ItemsWithVariance(items) ==
  {i \in DOMAIN items : items[i].variance # 0 /\ ~items[i].adjusted}

TasksSettled(cl) == \A i \in Products : cl.tasks[i].st \notin {"movement", "item"}

\* approveAdjustments up to the Promise.all over itemsWithVariance; a further
\* approval is looked at once the tasks of the previous one have settled
StartApproval(c) ==
  LET cl == clients[c]
      todo == ItemsWithVariance(cl.items)
  IN /\ cl.cachedStatus = "counting"
     /\ ~cl.approving
     /\ TasksSettled(cl)
     /\ cl.approvals < MaxApprovals
     /\ clients' = [clients EXCEPT ![c] =
          IF todo = {}
          THEN [cl EXCEPT !.toast = "No Adjustments", !.approvals = @ + 1,
                          !.errorToasts = 0,
                          !.tasks = [p \in Products |-> Settled("none")]]
          ELSE [cl EXCEPT !.approving = TRUE, !.approvals = @ + 1,
                          !.toast = "none", !.errorToasts = 0,
                          !.tasks = [p \in Products |->
                                       IF p \in todo
                                       THEN Task("movement", cl.items[p], 0)
                                       ELSE Settled("none")]]]
     /\ UNCHANGED <<today, saleState, faultsLeft, alertState, session, stats>>

StocktakeMovement(productId, quantity) ==
  [productId |-> productId, batchId |-> 0, type |-> "stocktake",
   quantity |-> quantity, costPrice |-> 0, reference |-> 0]

\* the Promise.all rejecting on an item's first failure: the catch shows one
\* error toast and finally clears approving; later rejections go unnoticed
RejectApproval(cl, i) ==
  IF cl.approving
  THEN [cl EXCEPT !.tasks[i] = Settled("failed"), !.approving = FALSE,
                  !.toast = "Error", !.errorToasts = @ + 1]
  ELSE [cl EXCEPT !.tasks[i] = Settled("failed")]

\* an item's task: insertStockMovement of its variance
ApproveInsertMovement(c, i) ==
  /\ clients[c].tasks[i].st = "movement"
  /\ movements' = Append(movements,
       StocktakeMovement(i, clients[c].tasks[i].item.variance))
  /\ clients' = [clients EXCEPT ![c].tasks[i] =
       Task("item", clients[c].tasks[i].item, Len(movements) + 1)]
  /\ NoFail
  /\ UNCHANGED <<today, batches, sales, proc, consoleErrors, receiving, alertState,
                 session, stats>>

ApproveInsertMovementError(c, i) ==
  /\ clients[c].tasks[i].st = "movement"
  /\ Fail
  /\ clients' = [clients EXCEPT ![c] = RejectApproval(clients[c], i)]
  /\ UNCHANGED <<today, saleState, alertState, session, stats>>

\* an item's task: upsertStocktakeItem with adjusted and the movement's id
ApproveUpsertItem(c, i) ==
  /\ clients[c].tasks[i].st = "item"
  /\ session' = [session EXCEPT !.items[i] =
       [ItemPayload(clients[c].tasks[i].item) EXCEPT
          !.adjusted = TRUE, !.adjustmentMovementId = clients[c].tasks[i].movementId]]
  /\ clients' = [clients EXCEPT ![c].tasks[i] = Settled("done")]
  /\ NoFail
  /\ UNCHANGED <<today, saleState, alertState, stats>>

ApproveUpsertItemError(c, i) ==
  /\ clients[c].tasks[i].st = "item"
  /\ Fail
  /\ clients' = [clients EXCEPT ![c] = RejectApproval(clients[c], i)]
  /\ UNCHANGED <<today, saleState, alertState, session, stats>>

\* every task fulfilled: updateStocktakeSession, audit log, invalidations, toast
ApproveSession(c) ==
  /\ clients[c].approving
  /\ \A i \in Products : clients[c].tasks[i].st \in {"none", "done"}
  /\ session' = [session EXCEPT !.status = "approved"]
  /\ clients' = [clients EXCEPT ![c].approving = FALSE,
                                ![c].toast = "Adjustments Approved"]
  /\ NoFail
  /\ UNCHANGED <<today, saleState, alertState, stats>>

ApproveSessionError(c) ==
  /\ clients[c].approving
  /\ \A i \in Products : clients[c].tasks[i].st \in {"none", "done"}
  /\ Fail
  /\ clients' = [clients EXCEPT ![c].approving = FALSE, ![c].toast = "Error",
                                ![c].errorToasts = @ + 1]
  /\ UNCHANGED <<today, saleState, alertState, session, stats>>

\* the stocktake_sessions query refetched
RefreshSessions(c) ==
  /\ clients[c].cachedStatus # session.status
  /\ clients' = [clients EXCEPT ![c].cachedStatus = session.status]
  /\ UNCHANGED <<today, saleState, faultsLeft, alertState, session, stats>>

\* the stocktake_items query refetched: syncItems sets the items from the rows
RefreshItems(c) ==
  /\ clients[c].items # session.items
  /\ clients' = [clients EXCEPT ![c].items = session.items]
  /\ UNCHANGED <<today, saleState, faultsLeft, alertState, session, stats>>

StocktakeStep(c) ==
  \/ \E i \in Products :
       \/ UpdateCountedQuantity(c, i)
       \/ SaveItem(c, i) \/ SaveItemError(c, i)
       \/ ApproveInsertMovement(c, i) \/ ApproveInsertMovementError(c, i)
       \/ ApproveUpsertItem(c, i) \/ ApproveUpsertItemError(c, i)
  \/ StartApproval(c)
  \/ ApproveSession(c) \/ ApproveSessionError(c)
  \/ RefreshSessions(c) \/ RefreshItems(c)

\* --------------------------------------------------------------- valuation
NoStats == [fetched |-> <<>>, computed |-> FALSE, totalCostValue |-> 0]

\* mutant: every row of the list is kept
UniqueBatchesKeepAll(fetched) ==
  [k \in DOMAIN fetched |-> [id |-> fetched[k], at |-> k]]

\* uniqueBatchesMap: the first row of each batch id, in the order met
UniqueBatches(fetched) ==
  SelectSeq([k \in DOMAIN fetched |-> [id |-> fetched[k], at |-> k]],
            LAMBDA r : \A j \in 1..(r.at - 1) : fetched[j] # r.id)

\* totalCostValue: per active product, its unique batches with remainingQuantity
\* > 0 and costPrice > 0, remainingQuantity * costPrice summed
TotalCostValue(pr, bt, fetched) ==
  LET unique == UniqueBatches(fetched)
      Valid(k) == /\ pr[bt[unique[k].id].productId].active
                  /\ bt[unique[k].id].remainingQuantity > 0
                  /\ bt[unique[k].id].costPrice > 0
      RECURSIVE Total(_)
      Total(k) ==
        IF k > Len(unique) THEN 0
        ELSE (IF Valid(k)
              THEN bt[unique[k].id].remainingQuantity * bt[unique[k].id].costPrice
              ELSE 0) + Total(k + 1)
  IN Total(1)

\* calculateInventoryStatsAsync over a list of batch rows as it was fetched
CalculateInventoryStats ==
  /\ ~stats.computed
  /\ \E n \in 0..MaxFetched :
       \E fetched \in [1..n -> DOMAIN batches] :
         stats' = [fetched |-> fetched, computed |-> TRUE,
                   totalCostValue |-> TotalCostValue(products, batches, fetched)]
  /\ UNCHANGED <<today, saleState, faultsLeft, alertState, stocktakeState>>

\* ------------------------------------------------------------------- Init
\* stock on hand: batch i as it was received (its purchase movement in the ledger)
InitProductOf(i) == IF i = 1 THEN "p1" ELSE "p2"

Inventories(n) ==
  {[i \in 1..n |-> [productId |-> InitProductOf(i), expiryDate |-> e[i],
                    remainingQuantity |-> q[i], costPrice |-> i]] :
     e \in [1..n -> Days], q \in [1..n -> 1..MaxQty]}

PurchasesOf(bt) ==
  [i \in DOMAIN bt |->
     PurchaseMovement(bt[i].productId, i, bt[i].remainingQuantity, bt[i].costPrice)]

\* products as created, no alert yet, a stocktake session just opened, no stats
DefaultProducts == [p \in Products |-> [active |-> TRUE, reorderPoint |-> 0]]

InitIdle ==
  /\ products = DefaultProducts
  /\ clock = 0
  /\ alerts = <<>>
  /\ alertProc = [c \in Callers |-> IdleAlertProc]
  /\ session = CountingSession(movements)
  /\ clients = [c \in Callers |-> IdleClient(session)]
  /\ stats = NoStats

InitWith(inventories, budget) ==
  /\ today \in Days
  /\ batches \in inventories
  /\ movements = PurchasesOf(batches)
  /\ sales = {}
  /\ proc = [c \in Callers |-> IdleProc]
  /\ faultsLeft = budget
  /\ consoleErrors = [c \in Callers |-> 0]
  /\ receiving = NoReceive
  /\ InitIdle

\* one caller selling out of a stocked store, any persistence call may fail
InitSale == InitWith(Inventories(3), MaxFaults)
NextSale == SaleStep(1, Carts)
SpecSale == InitSale /\ [][NextSale]_vars

\* stock being received while one caller sells
InitReceive == InitWith({<<>>}, MaxFaults)
NextReceive ==
  \/ SaleStep(1, CartsOf({1}))
  \/ ReceiveStock
  \/ ReceiveMovement
  \/ ReceiveMovementError
SpecReceive == InitReceive /\ [][NextReceive]_vars

\* concurrent callers selling out of the same batches
Init == InitWith(Inventories(2), MaxConcFaults)
Next == \E c \in Callers : SaleStep(c, CartsOf({1}))
Spec == Init /\ [][Next]_vars

\* ------------------------------------------------- the allocator on its own
\* deductStockFIFOAsync called for one product and quantity, no other writer and
\* every updateStockBatch succeeding: fetch, plan, writes, result
DeductStockFIFOAsync(c) ==
  /\ proc[c].pc = "idle"
  /\ \E productId \in Products, quantity \in 0..MaxRequest :
       \E fetched \in FetchStockBatchesByProduct(batches, productId) :
         LET r == DeductStockFIFO(batches, GetFIFOBatches(batches, fetched), quantity)
         IN /\ batches' = ApplyUpdates(batches, r.updatedBatches)
            /\ proc' = [proc EXCEPT ![c] =
                 [IdleProc EXCEPT !.pc = "allocated",
                                  !.cart = <<[productId |-> productId,
                                              quantity |-> quantity]>>,
                                  !.idx = 1,
                                  !.deductionResult = [success |-> r.success,
                                                       deductions |-> r.deductions]]]
  /\ UNCHANGED <<others, today, movements, sales, faultsLeft, consoleErrors, receiving>>

\* three batches of p1 with any expiry order and quantities, one batch of p2
AllocInventories ==
  {[i \in 1..4 |->
      IF i = 4
      THEN [productId |-> "p2", expiryDate |-> 1, remainingQuantity |-> MaxAllocQty,
            costPrice |-> i]
      ELSE [productId |-> "p1", expiryDate |-> e[i], remainingQuantity |-> q[i],
            costPrice |-> i]] :
     e \in [1..3 -> 1..3], q \in [1..3 -> 0..MaxAllocQty]}

InitAlloc ==
  /\ today = 1
  /\ batches \in AllocInventories
  /\ movements = PurchasesOf(batches)
  /\ sales = {}
  /\ proc = [c \in Callers |-> IdleProc]
  /\ faultsLeft = 0
  /\ consoleErrors = [c \in Callers |-> 0]
  /\ receiving = NoReceive
  /\ InitIdle
NextAlloc == DeductStockFIFOAsync(1)
SpecAlloc == InitAlloc /\ [][NextAlloc]_vars

\* ---------------------------------------------------- the ledger on its own
\* insertStockMovement of any type and sign, by whichever operation records it
RecordMovement ==
  /\ Len(movements) < MaxMovements
  /\ \E productId \in Products, type \in MovementTypes, quantity \in (0 - MaxQty)..MaxQty :
       movements' = Append(movements,
         [productId |-> productId, batchId |-> 0, type |-> type,
          quantity |-> quantity, costPrice |-> 0, reference |-> 0])
  /\ UNCHANGED <<others, today, batches, sales, proc, faultsLeft, consoleErrors, receiving>>

\* the POS loading its stock levels: calculateCurrentStockAsync per product
LoadStocks(c) ==
  /\ proc' = [proc EXCEPT ![c].productStocks =
       [p \in Products |-> CurrentStockQuantity(movements, p)]]
  /\ UNCHANGED <<others, today, store, faultsLeft, consoleErrors, receiving>>

InitLedger == InitWith({<<>>}, 0)
NextLedger == RecordMovement \/ LoadStocks(1)
SpecLedger == InitLedger /\ [][NextLedger]_vars


\* ------------------------------------------------ the alerts on their own
\* one batch of p1, expired, expiring tomorrow, in a month or later; p2 unstocked
AlertExpiryDays == {0, 1, 32, 100}

InitAlerts(budget) ==
  /\ today = 1
  /\ \E e \in AlertExpiryDays, q \in 0..MaxQty :
       batches = <<[productId |-> "p1", expiryDate |-> e, remainingQuantity |-> q,
                    costPrice |-> 1]>>
  /\ movements = PurchasesOf(batches)
  /\ sales = {}
  /\ proc = [c \in Callers |-> IdleProc]
  /\ faultsLeft = budget
  /\ consoleErrors = [c \in Callers |-> 0]
  /\ receiving = NoReceive
  /\ \E r \in 0..MaxQty :
       products = [DefaultProducts EXCEPT !["p1"].reorderPoint = r]
  /\ clock = 0
  /\ alerts = <<>>
  /\ alertProc = [c \in Callers |-> IdleAlertProc]
  /\ session = CountingSession(movements)
  /\ clients = [c \in Callers |-> IdleClient(session)]
  /\ stats = NoStats

\* one caller generating alerts again and again as time passes
InitAlertSeq == InitAlerts(1)
NextAlertSeq == AlertStep(1) \/ Tick
SpecAlertSeq == InitAlertSeq /\ [][NextAlertSeq]_vars

\* overlapping generateAndSaveAlerts invocations
InitAlertConc == InitAlerts(1)
NextAlertConc == \E c \in Callers : AlertStep(c)
SpecAlertConc == InitAlertConc /\ [][NextAlertConc]_vars

\* generateProductAlerts of p1 for any stock level, reorder point and expiry
ReorderPoints == {0, 10, 100}

InitEvaluate ==
  /\ today = 1
  /\ \E e \in 0..MaxExpiryDay, q \in 0..MaxStockQty :
       batches = <<[productId |-> "p1", expiryDate |-> e, remainingQuantity |-> q,
                    costPrice |-> 1]>>
  /\ movements = PurchasesOf(batches)
  /\ sales = {}
  /\ proc = [c \in Callers |-> IdleProc]
  /\ faultsLeft = 0
  /\ consoleErrors = [c \in Callers |-> 0]
  /\ receiving = NoReceive
  /\ \E r \in ReorderPoints, a \in BOOLEAN :
       products = [DefaultProducts EXCEPT !["p1"] = [active |-> a, reorderPoint |-> r]]
  /\ clock = 0
  /\ alerts = <<>>
  /\ alertProc = [c \in Callers |-> IdleAlertProc]
  /\ session = CountingSession(movements)
  /\ clients = [c \in Callers |-> IdleClient(session)]
  /\ stats = NoStats
NextEvaluate == GenerateAlerts(1, "p1")
SpecEvaluate == InitEvaluate /\ [][NextEvaluate]_vars

\* -------------------------------------------- the stocktake on its own
\* a session opened on a stocked store, counted and approved by one client
StocktakeInventories ==
  {bt \in Inventories(2) :
     \A i \in DOMAIN bt : bt[i].expiryDate = MaxDay /\ bt[i].remainingQuantity = 1}
InitStocktake == InitWith(StocktakeInventories, MaxFaults)
NextStocktake == StocktakeStep(1)
SpecStocktake == InitStocktake /\ [][NextStocktake]_vars

\* a session whose counts have been entered and saved, shown by two clients that
\* both approve it; no persistence call fails
CountedSessions(mv) ==
  {[status |-> "counting",
    items |-> [p \in Products |->
       [GeneratedItem(mv, p) EXCEPT
          !.countedQuantity = counted[p],
          !.variance = counted[p] - GeneratedItem(mv, p).systemQuantity]]] :
     counted \in [Products -> 0..MaxCount]}

InitStocktakeConc ==
  /\ today \in Days
  /\ batches \in StocktakeInventories
  /\ movements = PurchasesOf(batches)
  /\ sales = {}
  /\ proc = [c \in Callers |-> IdleProc]
  /\ faultsLeft = 0
  /\ consoleErrors = [c \in Callers |-> 0]
  /\ receiving = NoReceive
  /\ products = DefaultProducts
  /\ clock = 0
  /\ alerts = <<>>
  /\ alertProc = [c \in Callers |-> IdleAlertProc]
  /\ session \in CountedSessions(movements)
  /\ clients = [c \in Callers |-> IdleClient(session)]
  /\ stats = NoStats
NextStocktakeConc ==
  \E c \in Callers :
    \/ StartApproval(c)
    \/ \E i \in Products : ApproveInsertMovement(c, i) \/ ApproveUpsertItem(c, i)
    \/ ApproveSession(c)
    \/ RefreshSessions(c) \/ RefreshItems(c)
SpecStocktakeConc == InitStocktakeConc /\ [][NextStocktakeConc]_vars

\* a counted session approved by one client while another caller sells: the sale
\* may complete between the count and the approval
InitStocktakeSale ==
  /\ today \in Days
  /\ batches \in StocktakeInventories
  /\ movements = PurchasesOf(batches)
  /\ sales = {}
  /\ proc = [c \in Callers |-> IdleProc]
  /\ faultsLeft = MaxFaults
  /\ consoleErrors = [c \in Callers |-> 0]
  /\ receiving = NoReceive
  /\ products = DefaultProducts
  /\ clock = 0
  /\ alerts = <<>>
  /\ alertProc = [c \in Callers |-> IdleAlertProc]
  /\ session \in CountedSessions(movements)
  /\ clients = [c \in Callers |-> IdleClient(session)]
  /\ stats = NoStats
NextStocktakeSale ==
  \/ SaleStep(1, CartsOf({1}))
  \/ StartApproval(2)
  \/ \E i \in Products : ApproveInsertMovement(2, i) \/ ApproveUpsertItem(2, i)
  \/ ApproveSession(2)
  \/ RefreshSessions(2) \/ RefreshItems(2)
SpecStocktakeSale == InitStocktakeSale /\ [][NextStocktakeSale]_vars

\* a counting session whose items the client holds with any counted quantity and
\* any variance, then edits and saves
PassedItems(s) ==
  {[i \in Products |->
      [s.items[i] EXCEPT !.countedQuantity = counted[i], !.variance = variance[i]]] :
     counted \in [Products -> 0..MaxCount],
     variance \in [Products -> (0 - MaxCount)..MaxCount]}

InitSaveItem ==
  /\ today = 0
  /\ batches \in StocktakeInventories
  /\ movements = PurchasesOf(batches)
  /\ sales = {}
  /\ proc = [c \in Callers |-> IdleProc]
  /\ faultsLeft = 1
  /\ consoleErrors = [c \in Callers |-> 0]
  /\ receiving = NoReceive
  /\ products = DefaultProducts
  /\ clock = 0
  /\ alerts = <<>>
  /\ alertProc = [c \in Callers |-> IdleAlertProc]
  /\ session = CountingSession(movements)
  /\ \E items \in PassedItems(session) :
       clients = [c \in Callers |-> [IdleClient(session) EXCEPT !.items = items]]
  /\ stats = NoStats
NextSaveItem ==
  \/ \E i \in Products :
       \/ UpdateCountedQuantity(1, i)
       \/ SaveItem(1, i) \/ SaveItemError(1, i)
  \/ RefreshItems(1)
SpecSaveItem == InitSaveItem /\ [][NextSaveItem]_vars

\* ---------------------------------------------- the valuation on its own
ValuationInventories ==
  {[i \in 1..2 |-> [productId |-> pr[i], expiryDate |-> MaxDay,
                    remainingQuantity |-> q[i], costPrice |-> u[i]]] :
     pr \in [1..2 -> Products], q \in [1..2 -> 0..MaxQty], u \in [1..2 -> 0..MaxUnitCost]}

InitValuation ==
  /\ today = 1
  /\ batches \in ValuationInventories
  /\ movements = PurchasesOf(batches)
  /\ sales = {}
  /\ proc = [c \in Callers |-> IdleProc]
  /\ faultsLeft = 0
  /\ consoleErrors = [c \in Callers |-> 0]
  /\ receiving = NoReceive
  /\ products \in [Products -> {[active |-> a, reorderPoint |-> 0] : a \in BOOLEAN}]
  /\ clock = 0
  /\ alerts = <<>>
  /\ alertProc = [c \in Callers |-> IdleAlertProc]
  /\ session = CountingSession(movements)
  /\ clients = [c \in Callers |-> IdleClient(session)]
  /\ stats = NoStats
NextValuation == CalculateInventoryStats
SpecValuation == InitValuation /\ [][NextValuation]_vars

\* ------------------------------------------------------------------ claims
Returned(c) == proc[c].pc = "done"
Failed(c) == Returned(c) /\ proc[c].toast # "Sale Completed"
SaleRecorded(c) == \E s \in sales : s.saleNumber = SaleNumber(c)
SaleMovementRows(c) ==
  {i \in DOMAIN movements : movements[i].type = "sale" /\ movements[i].reference = SaleId(c)}

\* the quantity batch i was received with: its purchase row, the i-th of the ledger
PreSaleQuantity(i) == movements[i].quantity

\* the quantity the recorded sale movements took out of batch i
SoldFrom(i) ==
  SumSeq([k \in DOMAIN movements |->
            IF movements[k].type = "sale" /\ movements[k].batchId = i
            THEN 0 - movements[k].quantity ELSE 0])

\* C1: once processSale has returned, the sale's movements and its sale record are
\* either all in the store or none of them is.
C1_SaleAllOrNothing ==
  \A c \in Callers :
    Returned(c) =>
      \/ /\ SaleRecorded(c)
         /\ Cardinality(SaleMovementRows(c)) = Len(proc[c].stockMovements)
      \/ /\ ~SaleRecorded(c)
         /\ SaleMovementRows(c) = {}

\* C2: a sale of several lines that failed after an earlier line's decrement was
\* persisted, whose compensating writes all succeeded, with no other writer, leaves
\* every batch at its pre-sale remainingQuantity once it has returned.
C2_RollbackRestoresBatches ==
  \A c \in Callers :
    ( /\ Failed(c)
      /\ Len(proc[c].cart) > 1
      /\ proc[c].allAppliedDeductions # <<>>
      /\ consoleErrors[c] = 0
      /\ proc[c].inflight = {} )
    => \A i \in DOMAIN batches : batches[i].remainingQuantity = PreSaleQuantity(i)

\* C3: when the concurrent sales have all completed, every batch has decreased by
\* the sum of their deductions (no decrement is overwritten by a stale write).
C3_NoLostDecrement ==
  (\A c \in Callers : Returned(c) /\ proc[c].toast = "Sale Completed")
  => \A i \in DOMAIN batches :
       batches[i].remainingQuantity = PreSaleQuantity(i) - SoldFrom(i)

\* C4: every batch has remainingQuantity >= 0 in every reachable state.
C4_RemainingNonNegative ==
  \A i \in DOMAIN batches : batches[i].remainingQuantity >= 0

\* C10 (in particular): a failed sale one of whose rollback writes failed is reported
\* to its caller differently from a failed sale whose rollback went through.
C10_RollbackFailureReported ==
  \A c1, c2 \in Callers :
    (Failed(c1) /\ Failed(c2) /\ consoleErrors[c1] > 0 /\ consoleErrors[c2] = 0)
    => proc[c1].toast # proc[c2].toast

\* the sum of the product's movement quantities, taken over the set of rows
RECURSIVE SumOver(_, _)
SumOver(S, f) ==
  IF S = {} THEN 0
  ELSE LET i == CHOOSE x \in S : TRUE IN f[i] + SumOver(S \ {i}, f)

LedgerSum(mv, productId) ==
  SumOver({i \in DOMAIN mv : mv[i].productId = productId},
          [i \in DOMAIN mv |-> mv[i].quantity])

AllocStep(c) == proc[c].pc = "idle" /\ proc'[c].pc = "allocated"
StockedBatches(bt, productId) ==
  {i \in DOMAIN bt : bt[i].productId = productId /\ bt[i].remainingQuantity > 0}
TotalRemaining(bt, productId) ==
  SumOver(StockedBatches(bt, productId),
          [i \in DOMAIN bt |-> bt[i].remainingQuantity])
DeductedFrom(ds, b) ==
  SumOver({k \in DOMAIN ds : ds[k].batchId = b}, [k \in DOMAIN ds |-> ds[k].quantity])

GreedyPlan(bt, productId, quantity, ds) ==
  /\ \A k \in DOMAIN ds :
       /\ ds[k].batchId \in StockedBatches(bt, productId)
       /\ ds[k].quantity =
            Min(quantity - SumOver(1..(k - 1), [j \in DOMAIN ds |-> ds[j].quantity]),
                bt[ds[k].batchId].remainingQuantity)
       /\ ds[k].quantity <= bt[ds[k].batchId].remainingQuantity
       /\ ds[k].costPrice = bt[ds[k].batchId].costPrice
       /\ \A j \in DOMAIN ds :
            j < k => /\ ds[j].batchId # ds[k].batchId
                     /\ bt[ds[j].batchId].expiryDate <= bt[ds[k].batchId].expiryDate
       /\ \A a \in StockedBatches(bt, productId) :
            bt[a].expiryDate < bt[ds[k].batchId].expiryDate
              => DeductedFrom(ds, a) = bt[a].remainingQuantity
  /\ SumOver(DOMAIN ds, [j \in DOMAIN ds |-> ds[j].quantity]) <= quantity

\* C6: the deductions of every allocation are the greedy plan over the product's
\* stocked batches in ascending expiry order, a successful one covers the request
\* exactly and decrements each batch by its deduction; batches [5,5,5] with
\* d1<d2<d3 and a request of 7 give [(batch1,5),(batch2,2)], batch3 untouched.
C6_GreedyFIFOPlan ==
  [][\A c \in Callers :
       AllocStep(c) =>
         LET productId == proc'[c].cart[1].productId
             quantity == proc'[c].cart[1].quantity
             r == proc'[c].deductionResult
         IN /\ GreedyPlan(batches, productId, quantity, r.deductions)
            /\ r.success => DeductionTotal(r.deductions) = quantity
            /\ \A i \in DOMAIN batches :
                 batches'[i].remainingQuantity
                   = batches[i].remainingQuantity - DeductedFrom(r.deductions, i)
            /\ ( /\ productId = "p1" /\ quantity = 7
                 /\ \A i \in 1..3 : batches[i].remainingQuantity = 5
                                    /\ batches[i].expiryDate = i )
               => /\ [k \in DOMAIN r.deductions |->
                        <<r.deductions[k].batchId, r.deductions[k].quantity>>]
                       = << <<1, 5>>, <<2, 2>> >>
                  /\ batches'[3] = batches[3]]_vars

\* C6 witness: the example of the claim has been allocated
C6_Witness ==
  /\ proc[1].pc = "allocated"
  /\ proc[1].cart[1] = [productId |-> "p1", quantity |-> 7]
  /\ proc[1].deductionResult.success
  /\ Len(proc[1].deductionResult.deductions) = 2
  /\ \A i \in 1..3 : batches[i].expiryDate = i
  /\ batches[1].remainingQuantity = 0
  /\ batches[2].remainingQuantity = 3
  /\ batches[3].remainingQuantity = 5

\* C7: an allocation of more than the total remainingQuantity of the product's
\* batches returns failure with no deductions and changes no batch.
C7_InsufficientStockNoMutation ==
  [][\A c \in Callers :
       ( /\ AllocStep(c)
         /\ proc'[c].cart[1].quantity
              > TotalRemaining(batches, proc'[c].cart[1].productId) )
       => /\ ~proc'[c].deductionResult.success
          /\ proc'[c].deductionResult.deductions = <<>>
          /\ batches' = batches]_vars

\* C7 witness: a refused allocation of a product that has stock in two batches
C7_Witness ==
  /\ proc[1].pc = "allocated"
  /\ ~proc[1].deductionResult.success
  /\ proc[1].cart[1].productId = "p1"
  /\ Cardinality(StockedBatches(batches, "p1")) >= 2
  /\ proc[1].cart[1].quantity > TotalRemaining(batches, "p1")

\* the batches as they were before any sale: each with its received quantity
PreSaleBatches ==
  [i \in DOMAIN batches |->
     [batches[i] EXCEPT !.remainingQuantity = PreSaleQuantity(i)]]

EarliestBatchExpired(bt, productId) ==
  \E i \in StockedBatches(bt, productId) :
    /\ \A j \in StockedBatches(bt, productId) : bt[i].expiryDate <= bt[j].expiryDate
    /\ bt[i].expiryDate < today

\* C9: a sale whose cart has a line whose earliest-expiry stocked batch is expired
\* never leaves the expiry check except refused, and nothing is written: no batch
\* changes, no movement and no sale record is inserted.
C9_ExpiredStockRefusesSale ==
  \A c \in Callers :
    ( /\ proc[c].pc # "idle"
      /\ \E k \in DOMAIN proc[c].cart :
           EarliestBatchExpired(PreSaleBatches, proc[c].cart[k].productId) )
    => /\ proc[c].pc \in {"expiry", "done"}
       /\ Returned(c) => proc[c].toast \in {"Expired Product", "Expiry Check Error"}
       /\ batches = PreSaleBatches
       /\ Len(movements) = Len(batches)
       /\ sales = {}

\* C9 witness: a sale refused for the expired stock of its second line
C9_Witness ==
  /\ Returned(1)
  /\ proc[1].toast = "Expired Product"
  /\ Len(proc[1].cart) = 2
  /\ ~EarliestBatchExpired(batches, proc[1].cart[1].productId)
  /\ EarliestBatchExpired(batches, proc[1].cart[2].productId)

\* ---- stocktake: the movements of an item, the approvals that have returned
StocktakeMovementsOf(i) ==
  {k \in DOMAIN movements :
     movements[k].type = "stocktake" /\ movements[k].productId = i}
ApprovalReturned(c) == clients[c].approvals > 0 /\ ~clients[c].approving

\* C11: every stored item with adjusted = true is linked to one stocktake movement
\* of its product whose quantity equals the item's stored variance, so that
\* countedQuantity = systemQuantity + the movement's quantity.
C11_AdjustedItemMatchesMovement ==
  \A i \in Products :
    session.items[i].adjusted =>
      LET k == session.items[i].adjustmentMovementId
      IN /\ k \in StocktakeMovementsOf(i)
         /\ movements[k].quantity = session.items[i].variance
         /\ session.items[i].countedQuantity
              = session.items[i].systemQuantity + movements[k].quantity

\* C12: once approveAdjustments has returned, each item either has a stocktake
\* movement and is marked adjusted, or has no stocktake movement and is not.
C12_ApprovalAllOrNothingPerItem ==
  (\A c \in Callers : clients[c].approvals > 0 => ApprovalReturned(c))
    => \A i \in Products :
         session.items[i].adjusted <=> StocktakeMovementsOf(i) # {}

\* C13: when an approval has settled, every item whose own adjustment did not
\* fail has its movement and its adjusted flag, and one failure is reported for
\* each item whose adjustment failed.
C13_ItemFailuresIndependentAndReported ==
  \A c \in Callers :
    (ApprovalReturned(c) /\ TasksSettled(clients[c])) =>
      /\ \A i \in Products :
           clients[c].tasks[i].st = "done" => StocktakeMovementsOf(i) # {}
      /\ clients[c].errorToasts
           = Cardinality({i \in Products : clients[c].tasks[i].st = "failed"})

\* C20: the stored status of a session changes only from counting, to approved or
\* cancelled, and no step of an approval (movement insert, item upsert, session
\* update) is carried out while the stored status is no longer counting.
C20_SessionStatusMachine ==
  [][ /\ session'.status # session.status =>
           session.status = "counting" /\ session'.status \in {"approved", "cancelled"}
      /\ (\E c \in Callers : \E i \in Products :
             /\ clients'[c].tasks[i] # clients[c].tasks[i]
             /\ clients'[c].tasks[i].st \in {"item", "done"})
           => session.status = "counting" ]_vars


\* ---- alerts: rows of one (product, type, batch), stock-level candidates
SameAlertKey(a, b) ==
  a.productId = b.productId /\ a.type = b.type /\ a.batchId = b.batchId
RecentRows(rows, check, now) ==
  {k \in DOMAIN rows :
     SameAlertKey(rows[k], check) /\ rows[k].createdAt >= now - DuplicateWindowHours}
NoDuplicateWithinWindow(rows) ==
  \A j, k \in DOMAIN rows :
    (j < k /\ SameAlertKey(rows[j], rows[k]))
      => rows[k].createdAt - rows[j].createdAt > DuplicateWindowHours

\* C14: one caller calling generateAndSaveAlerts again and again on unchanged
\* stock: whenever the loop is done with a candidate there is exactly one row of
\* its (product, type, batch) from the last 24 hours, and no two rows of the same
\* (product, type, batch) were ever created within 24 hours of each other.
C14_AlertIdempotence ==
  [][ /\ NoDuplicateWithinWindow(alerts')
      /\ \A c \in Callers :
           ( /\ alertProc[c].pc \in {"check", "insert"}
             /\ alertProc'[c] # alertProc[c]
             /\ alertProc'[c].pc # "failed"
             /\ alertProc'[c].pc # "insert" )
           => Cardinality(RecentRows(alerts', alertProc[c].checks[alertProc[c].idx],
                                     clock)) = 1 ]_vars

\* C14 witness: a second call within 24 hours of an unchanged low-stock product
\* has completed and there is one low_stock row
C14_Witness ==
  /\ alertProc[1].calls = 2
  /\ alertProc[1].pc = "done"
  /\ clock < DuplicateWindowHours
  /\ \E k \in DOMAIN alertProc[1].checks : alertProc[1].checks[k].type = "low_stock"
  /\ Cardinality({k \in DOMAIN alerts : alerts[k].type = "low_stock"}) = 1

\* C15: under overlapping invocations no two alert rows of the same (product,
\* type, batch) are created within 24 hours of each other.
C15_NoDuplicateAlerts == NoDuplicateWithinWindow(alerts)

StockLevelChecks(checks) ==
  {k \in DOMAIN checks : checks[k].type \in {"low_stock", "out_of_stock"}}
Evaluated(c) == alertProc[c].calls > 0 /\ alertProc[c].pc # "failed"

\* C16: for an active product the evaluation holds one stock-level candidate or
\* none: out_of_stock/critical at quantity 0; else low_stock when quantity <=
\* reorderPoint, high if quantity <= 0.3 x reorderPoint and medium otherwise; none
\* above the reorderPoint (reorderPoint 100: 100 gives medium, 25 gives high).
C16_StockLevelCandidate ==
  \A c \in Callers :
    (Evaluated(c) /\ products["p1"].active) =>
      LET checks == alertProc[c].checks
          level == StockLevelChecks(checks)
          quantity == CurrentStockQuantity(movements, "p1")
          reorderPoint == products["p1"].reorderPoint
      IN /\ Cardinality(level) <= 1
         /\ \A k \in level : checks[k].productId = "p1" /\ checks[k].batchId = 0
         /\ quantity = 0 =>
              \E k \in level : /\ checks[k].type = "out_of_stock"
                                /\ checks[k].severity = "critical"
         /\ (quantity > 0 /\ quantity <= reorderPoint) =>
              \E k \in level :
                /\ checks[k].type = "low_stock"
                /\ checks[k].severity =
                     IF 10 * quantity <= 3 * reorderPoint THEN "high" ELSE "medium"
         /\ quantity > reorderPoint => level = {}
         /\ (reorderPoint = 100 /\ quantity = 100) =>
              \E k \in level : /\ checks[k].type = "low_stock"
                                /\ checks[k].severity = "medium"
         /\ (reorderPoint = 100 /\ quantity = 25) =>
              \E k \in level : /\ checks[k].type = "low_stock"
                                /\ checks[k].severity = "high"

\* C16 witness: reorderPoint 100 and quantity 100 evaluated to one candidate
C16_Witness ==
  /\ Evaluated(1)
  /\ products["p1"] = [active |-> TRUE, reorderPoint |-> 100]
  /\ CurrentStockQuantity(movements, "p1") = 100
  /\ Cardinality(StockLevelChecks(alertProc[1].checks)) = 1

ExpiryChecks(checks, b) ==
  {k \in DOMAIN checks :
     checks[k].batchId = b /\ checks[k].type \in {"expired", "expiring_soon"}}

\* C17: each evaluated batch gets at most one expiry candidate, by the first rule
\* that matches: expiry date in the past gives expired/critical; else at most 30
\* days left gives expiring_soon/high; else at most 90 days left gives
\* expiring_soon/medium; else none.
C17_ExpiryCandidate ==
  \A c \in Callers :
    (Evaluated(c) /\ products["p1"].active) =>
      \A b \in DOMAIN batches :
        LET checks == alertProc[c].checks
            mine == ExpiryChecks(checks, b)
            days == batches[b].expiryDate - today
            Is(type, severity) ==
              \E k \in mine : checks[k].type = type /\ checks[k].severity = severity
        IN /\ Cardinality(mine) <= 1
           /\ days < 0 => Is("expired", "critical")
           /\ (days >= 0 /\ days <= 30) => Is("expiring_soon", "high")
           /\ (days > 30 /\ days <= 90) => Is("expiring_soon", "medium")
           /\ days > 90 => mine = {}

\* C17 witness: a batch with 31 days left evaluated to expiring_soon/medium
C17_Witness ==
  /\ Evaluated(1)
  /\ products["p1"].active
  /\ batches[1].expiryDate - today = 31
  /\ \E k \in ExpiryChecks(alertProc[1].checks, 1) :
       alertProc[1].checks[k].severity = "medium"


\* ---- valuation: the batches that count, whichever way the list names them
ValuedBatches(fetched) ==
  {b \in Range(fetched) :
     /\ products[batches[b].productId].active
     /\ batches[b].remainingQuantity > 0
     /\ batches[b].costPrice > 0}

\* C18: the total cost valuation is the sum of remainingQuantity x costPrice over
\* the distinct batch ids of the list that belong to active products and have
\* costPrice > 0 and remainingQuantity > 0; the list with every row repeated
\* gives the same total.
C18_ValuationOverDistinctBatches ==
  stats.computed =>
    /\ stats.totalCostValue
         = SumOver(ValuedBatches(stats.fetched),
                   [b \in DOMAIN batches |->
                      batches[b].remainingQuantity * batches[b].costPrice])
    /\ TotalCostValue(products, batches, stats.fetched \o stats.fetched)
         = stats.totalCostValue

\* C18 witness: a list naming a valued batch twice has been valued
C18_Witness ==
  /\ stats.computed
  /\ stats.totalCostValue > 0
  /\ \E j, k \in DOMAIN stats.fetched :
       j < k /\ stats.fetched[j] = stats.fetched[k]
             /\ stats.fetched[j] \in ValuedBatches(stats.fetched)

\* C19: a sale that has returned is in exactly one terminal state: Completed, with
\* its sale record and all its movements in the store, or RolledBack, with no sale
\* record.
C19_SaleTerminalStates ==
  \A c \in Callers :
    Returned(c) =>
      /\ proc[c].toast = "Sale Completed" =>
           /\ SaleRecorded(c)
           /\ Cardinality(SaleMovementRows(c)) = Len(proc[c].stockMovements)
      /\ Failed(c) => ~SaleRecorded(c)

\* C21: in every reachable state the signed movement quantities of every product
\* sum to a non-negative number, whatever the interleaving of sales and stocktake
\* approvals (a sale may complete between the count and the approval).
C21_LedgerNonNegative == \A p \in Products : LedgerSum(movements, p) >= 0

\* C22: receiving a negative quantity is rejected before any state change: no step
\* creates a batch record, or writes a purchase movement, of negative quantity.
C22_NegativeReceiveRejected ==
  [][ /\ \A i \in DOMAIN batches' :
           i \notin DOMAIN batches => batches'[i].remainingQuantity >= 0
      /\ \A k \in DOMAIN movements' :
           (k \notin DOMAIN movements /\ movements'[k].type = "purchase")
             => movements'[k].quantity >= 0 ]_vars

\* C23: when persisting a line's batch decrements failed after some of that line's
\* batches had been decremented, the rollback adds those back too: once the sale
\* has returned, its writes settled and every compensating write having succeeded,
\* every batch is at its pre-sale remainingQuantity.
C23_FailingLineRolledBack ==
  \A c \in Callers :
    ( /\ Failed(c)
      /\ proc[c].toast = "Process Error"
      /\ proc[c].inflight = {}
      /\ consoleErrors[c] = 0 )
    => batches = PreSaleBatches

\* C24: once the sale record is written, a failure of a later step changes no
\* batch: the batches stay decremented.
C24_NoBatchChangeAfterSaleRecord ==
  [][(\E c \in Callers : SaleRecorded(c)) => batches' = batches]_vars

\* C25: across the approvals of one session (a retry, or two callers) each item
\* gets at most one stocktake movement, and no movement is written for an item
\* that is already adjusted in the store.
C25_AtMostOneAdjustmentPerItem ==
  [][ \A i \in Products :
        /\ Cardinality(StocktakeMovementsOf(i)') <= 1
        /\ session.items[i].adjusted
             => StocktakeMovementsOf(i)' = StocktakeMovementsOf(i) ]_vars

\* the units on hand of a product according to its batches
BatchSum(bt, productId) ==
  SumSeq([i \in DOMAIN bt |->
            IF bt[i].productId = productId THEN bt[i].remainingQuantity ELSE 0])

\* no sale, receive or approval is in progress
Quiescent ==
  /\ \A c \in Callers : proc[c].pc \in {"idle", "done"} /\ proc[c].inflight = {}
  /\ receiving = NoReceive
  /\ \A c \in Callers : ~clients[c].approving /\ TasksSettled(clients[c])

\* C26: in every quiescent state, for every product, the movement quantities sum
\* to the sum of the remainingQuantity of the product's batches.
C26_LedgerEqualsBatches ==
  Quiescent => \A p \in Products : LedgerSum(movements, p) = BatchSum(batches, p)

\* the rows of type 'sale' in the ledger, and their quantities for one product
SaleRows == {k \in DOMAIN movements : movements[k].type = "sale"}
SoldOf(productId) ==
  SumSeq([k \in DOMAIN movements |->
            IF movements[k].type = "sale" /\ movements[k].productId = productId
            THEN movements[k].quantity ELSE 0])
CartQuantity(cart, productId) ==
  SumSeq([l \in DOMAIN cart |->
            IF cart[l].productId = productId THEN cart[l].quantity ELSE 0])

\* C27: a completed sale has written exactly one 'sale' movement per batch
\* deduction, with quantity = -(deducted quantity), the batch's unit cost and the
\* id of the sale record as reference, so that the movements of each product of
\* the cart sum to -(cart quantity).
C27_OneMovementPerDeduction ==
  \A c \in Callers :
    (Returned(c) /\ proc[c].toast = "Sale Completed") =>
      LET ds == proc[c].allAppliedDeductions
      IN /\ Cardinality(SaleRows) = Len(ds)
         /\ \A i \in DOMAIN ds : \E k \in SaleRows :
              /\ movements[k].batchId = ds[i].batchId
              /\ movements[k].quantity = 0 - ds[i].quantity
              /\ movements[k].costPrice = batches[ds[i].batchId].costPrice
         /\ \A productId \in Products :
              SoldOf(productId) = 0 - CartQuantity(proc[c].cart, productId)
         /\ \A k \in SaleRows : \E s \in sales :
              s.saleNumber = SaleNumber(c) /\ movements[k].reference = s.id

\* C28: the evaluation considers only batches with remainingQuantity > 0 for the
\* expiry alerts: no expiry candidate names an exhausted batch.
C28_ExpiryOnlyForStockedBatches ==
  \A c \in Callers :
    Evaluated(c) =>
      \A b \in DOMAIN batches :
        ExpiryChecks(alertProc[c].checks, b) # {} => batches[b].remainingQuantity > 0

\* C29: every stocktake item in the store has variance = countedQuantity -
\* systemQuantity, whatever variance the item held by the writer carried.
C29_StoredVarianceRecomputed ==
  \A i \in Products :
    session.items[i].variance
      = session.items[i].countedQuantity - session.items[i].systemQuantity

\* C29 witness: an item held with variance 2 has been saved with count 0 of a
\* system quantity 1, and is stored with variance -1
C29_Witness ==
  /\ clients[1].items["p1"].variance = 2
  /\ clients[1].items["p1"].countedQuantity = 0
  /\ session.items["p1"].countedQuantity = 0
  /\ session.items["p1"].systemQuantity = 1
  /\ session.items["p1"].variance = 0 - 1

\* C30: the allocation is deterministic: batches of identical expiry are consumed
\* in creation order (ascending batch id), whatever order the store returned them.
C30_TiesInCreationOrder ==
  [][\A c \in Callers :
       AllocStep(c) =>
         LET ds == proc'[c].deductionResult.deductions
         IN \A j, k \in DOMAIN ds :
              (j < k /\ batches[ds[j].batchId].expiryDate = batches[ds[k].batchId].expiryDate)
                => ds[j].batchId < ds[k].batchId]_vars

====
